---- MODULE Spec2Model ----
(***************************************************************************)
(* SpeechService (src/AI/app/services/speech_service.py): the cached       *)
(* access token, audio conversion, upload, result polling and the          *)
(* recognize_speech pipeline, as a state machine.                          *)
(*                                                                         *)
(* Each caller (thread) has a program counter `pc` and the local variables *)
(* of the method it is executing.  The service object's fields            *)
(* (access_token, token_expire_time), the clock, the file system and the   *)
(* uuid source are shared.  A step holds at most one access to state that  *)
(* another caller can change: each read or write of a field, each read of  *)
(* the clock, each call on the converted file, and the sending of a token  *)
(* or upload request and the arrival of its answer are steps of their own. *)
(* Code that works on locals only (the query request with the              *)
(* classification of its answer), on the input file, which no caller       *)
(* creates or removes, or on the uuid source, which never repeats a value, *)
(* is part of the step it belongs to.  A sleep or a token request ends no  *)
(* earlier than its duration after it began; callers block independently   *)
(* of each other.                                                          *)
(* Fields of `th` listed under "history" record what happened and are      *)
(* never read by the modelled code.                                        *)
(***************************************************************************)
EXTENDS Integers, Sequences, FiniteSets, TLC

VARIABLES
    access_token,       \* self.access_token (None or a string)
    token_expire_time,  \* self.token_expire_time
    now,                \* time.time()
    fs,                 \* paths of the files that exist
    uuid_count,         \* number of uuid.uuid4() values drawn so far
    th,                 \* per-thread state: pc, locals, history
    cache_by            \* history: which fetch stored the cached token and
                        \* which the cached expiry, with its expires_in

vars == <<access_token, token_expire_time, now, fs, uuid_count, th, cache_by>>

--------------------------------------------------------------------------
(* Bounds of the exploration *)

\* get_access_token calls a thread makes when it calls nothing else
MaxTokCalls == 3
\* direct query_recognition_result calls a thread makes
MaxPollCalls == 2
\* recognize_speech calls a thread makes
MaxRecCalls == 2
\* largest max_retries passed to a direct query_recognition_result call
MaxRetries == 3

\* calls a thread makes when it calls recognize_speech and
\* query_recognition_result in turn
MaxAuthCalls == 2

\* recognize_speech calls each of two concurrent threads makes
MaxConcRecCalls == 1

\* get_access_token calls each of two concurrent threads makes
MaxConcTokCalls == 2

(* Program constants *)

\* line 28: refresh 300 s before expiry
RefreshMargin == 300
\* line 40: data.get('expires_in', 7200)
DefaultExpiresIn == 7200
\* line 136: max_retries=5
DefaultMaxRetries == 5
\* line 136: delay=1
DefaultDelay == 1

Threads == {1, 2}

\* threads that issue calls when calls are made one at a time
SeqCallers == {1}

\* Python's None.  A str that shares a variable with None is written
\* Str(s), so the str 'None' and None differ.  The other variables that
\* start as None hold raw strings: a converted path always ends in
\* "_converted.mp3" and an upload's voice_id is a uuid, never "None".
None == "None"

\* the Python str with the characters s
Str(s) == "'" \o s \o "'"

\* the later of two clock values
Later(a, b) == IF a >= b THEN a ELSE b

--------------------------------------------------------------------------
(* Python values: truthiness, str.lower(), substring test, exceptions *)

\* bool(v) for v None or a str
Truthy(v) == v # None /\ v # Str("")

UpperCase == <<"A","B","C","D","E","F","G","H","I","J","K","L","M",
               "N","O","P","Q","R","S","T","U","V","W","X","Y","Z">>
LowerCase == <<"a","b","c","d","e","f","g","h","i","j","k","l","m",
               "n","o","p","q","r","s","t","u","v","w","x","y","z">>

\* one character of str.lower()
LowerChar(c) ==
    IF \E i \in 1..26 : UpperCase[i] = c
    THEN LowerCase[CHOOSE i \in 1..26 : UpperCase[i] = c]
    ELSE c

\* str.lower() on a string given as its sequence of characters
Lower(s) == [i \in 1..Len(s) |-> LowerChar(s[i])]

\* `needle in hay` for strings given as sequences of characters
Contains(hay, needle) ==
    \E i \in 1..(Len(hay) - Len(needle) + 1) :
        SubSeq(hay, i, i + Len(needle) - 1) = needle

\* An exception is its message, kept as the sequence of the pieces the
\* f-strings concatenate: f"prefix: {str(e)}" is <<"prefix: ">> \o e
Wrap(prefix, e) == <<prefix>> \o e

\* What a call delivered to its caller
NoOutcome == [kind |-> "none", val |-> "", exc |-> <<>>]
Return(v) == [kind |-> "return", val |-> v, exc |-> <<>>]
Raise(e) == [kind |-> "raise", val |-> "", exc |-> e]

--------------------------------------------------------------------------
(* What the remote endpoints and the encoder may answer *)

\* str(e) of an exception raised by requests (get/post, raise_for_status,
\* response.json())
TransportErrors == {"ConnectionError", "JSONDecodeError"}

\* values of data['access_token']
Tokens == {Str("T1"), Str("T2"), Str(""), Str("None")}

\* A token endpoint answer: status "error" is a raised transport error,
\* status "json" a decoded JSON object with the keys flagged present.
\* expires_in_kind "nonnumeric" is a value time.time() cannot be added to.
TokenResponse(st, e, ht, tok, ek, ei, hm, msg) ==
    [status |-> st, err |-> e, has_access_token |-> ht, access_token |-> tok,
     expires_in_kind |-> ek, expires_in |-> ei, has_errmsg |-> hm, errmsg |-> msg]

NoData == TokenResponse("json", "", FALSE, "", "absent", 0, FALSE, "")

TokenResponses ==
    {TokenResponse("error", e, FALSE, "", "absent", 0, FALSE, "") : e \in TransportErrors}
    \cup {TokenResponse("json", "", TRUE, tok, "absent", 0, FALSE, "") : tok \in Tokens}
    \cup {TokenResponse("json", "", TRUE, tok, "int", ei, FALSE, "") :
            tok \in Tokens, ei \in {300, 302}}
    \cup {TokenResponse("json", "", TRUE, tok, "nonnumeric", 0, FALSE, "") : tok \in Tokens}
    \cup {TokenResponse("json", "", FALSE, "", "absent", 0, TRUE, "invalid appid"),
          NoData}

\* the token endpoint answers explored while the pipeline is the subject
PipelineTokenResponses ==
    {TokenResponse("error", "ConnectionError", FALSE, "", "absent", 0, FALSE, ""),
     TokenResponse("json", "", TRUE, Str("T1"), "absent", 0, FALSE, ""),
     TokenResponse("json", "", TRUE, Str("T2"), "int", 302, FALSE, ""),
     TokenResponse("json", "", FALSE, "", "absent", 0, TRUE, "invalid appid")}

\* the token endpoint answers explored while two threads call concurrently
ConcTokenResponses ==
    {TokenResponse("error", "ConnectionError", FALSE, "", "absent", 0, FALSE, ""),
     TokenResponse("json", "", TRUE, Str("T1"), "absent", 0, FALSE, ""),
     TokenResponse("json", "", TRUE, Str("T2"), "absent", 0, FALSE, ""),
     TokenResponse("json", "", TRUE, Str(""), "absent", 0, FALSE, "")}

\* the token endpoint answers explored while two threads run the pipeline
ConcRecTokenResponses ==
    {TokenResponse("error", "ConnectionError", FALSE, "", "absent", 0, FALSE, ""),
     TokenResponse("json", "", TRUE, Str("T1"), "absent", 0, FALSE, "")}

\* An upload endpoint answer
UploadResponse(st, e, hc, code, hm, msg) ==
    [status |-> st, err |-> e, has_errcode |-> hc, errcode |-> code,
     has_errmsg |-> hm, errmsg |-> msg]

UploadResponses ==
    {UploadResponse("error", e, FALSE, 0, FALSE, "") : e \in TransportErrors}
    \cup {UploadResponse("json", "", TRUE, 0, FALSE, ""),
          UploadResponse("json", "", TRUE, 0, TRUE, "ok"),
          UploadResponse("json", "", TRUE, 40001, TRUE, "invalid credential"),
          UploadResponse("json", "", TRUE, 45009, FALSE, ""),
          UploadResponse("json", "", FALSE, 0, FALSE, "")}

\* errmsg values of the query endpoint, as sequences of characters
MsgServerBusy == <<"s","e","r","v","e","r"," ","b","u","s","y">>
MsgPleaseWait == <<"P","l","e","a","s","e"," ","W","A","I","T">>
MsgInvalidVoice == <<"i","n","v","a","l","i","d"," ","v","o","i","c","e">>
MsgUnknownError == <<"U","n","k","n","o","w","n"," ","e","r","r","o","r">>

QueryMessages == {MsgServerBusy, MsgPleaseWait, MsgInvalidVoice}

\* values of result['result']
ResultTexts == {"hello world"}

\* A query endpoint answer
QueryResponse(st, e, hr, res, hc, code, hm, msg) ==
    [status |-> st, err |-> e, has_result |-> hr, result |-> res,
     has_errcode |-> hc, errcode |-> code, has_errmsg |-> hm, errmsg |-> msg]

QueryJson ==
    {QueryResponse("json", "", hr, res, hc, code, hm, msg) :
        hr \in BOOLEAN, res \in ResultTexts, hc \in BOOLEAN, code \in {0, 2},
        hm \in BOOLEAN, msg \in QueryMessages}

\* absent keys carry one fixed filler value
QueryResponses ==
    {QueryResponse("error", e, FALSE, "hello world", FALSE, 0, FALSE, MsgServerBusy) :
        e \in TransportErrors}
    \cup {q \in QueryJson :
            /\ (~q.has_errcode => q.errcode = 0)
            /\ (~q.has_errmsg => q.errmsg = MsgServerBusy)}

\* the upload and query endpoint answers explored while the credential or
\* the interleaving of callers is the subject
FewUploadResponses ==
    {UploadResponse("json", "", TRUE, 0, TRUE, "ok"),
     UploadResponse("json", "", TRUE, 40001, TRUE, "invalid credential")}

FewQueryResponses ==
    {QueryResponse("error", "ConnectionError", FALSE, "hello world", FALSE, 0,
                   FALSE, MsgServerBusy),
     QueryResponse("json", "", TRUE, "hello world", FALSE, 0, FALSE, MsgServerBusy),
     QueryResponse("json", "", FALSE, "hello world", TRUE, 0, FALSE, MsgServerBusy)}

\* the query endpoint answers explored while two threads run the pipeline
ConcRecQueryResponses ==
    {QueryResponse("json", "", TRUE, "hello world", FALSE, 0, FALSE, MsgServerBusy),
     QueryResponse("json", "", FALSE, "hello world", TRUE, 0, FALSE, MsgServerBusy)}

\* audio files given to recognize_speech, and those that exist at the start
InputPaths == {"a.wav", "b.wav"}
ExistingInputs == {"a.wav"}

\* os.path.splitext(input_path)[0]
SplitextBase(path) ==
    CASE path = "a.wav" -> "a"
      [] path = "b.wav" -> "b"

\* lines 74-76: the output path when output_path is None
ConvertedPath(input_path) == SplitextBase(input_path) \o "_converted.mp3"

\* one id drawn once and used for every upload
Uuid_Reused(n) == "uuid-1"

\* str(uuid.uuid4()): a value never drawn before
Uuid(n) == "uuid-" \o ToString(n)

\* delay values passed to a direct query_recognition_result call
Delays == {0, 1}

\* seconds a token request may take
Latencies == {0, 1}

\* seconds that may pass between two get_access_token calls
Gaps == {0, 1, 2, 6899, 6900}

--------------------------------------------------------------------------
(* Per-thread state *)

\* the cached credential and the clock, as seen at one moment
Snapshot == [access_token |-> access_token,
             token_expire_time |-> token_expire_time, now |-> now,
             stored |-> cache_by]

\* no fetch: the values of lines 19-20 are in the cache
NoFetch == <<0, 0, "none">>

\* the fetch made by the get_access_token call thread t is in
FetchId(t, r) == <<t, r.calls, r.gtRet>>

NoWriter == [token |-> NoFetch, expire |-> NoFetch, expires_in |-> 0]

NoSnapshot == [access_token |-> None, token_expire_time |-> 0, now |-> 0,
               stored |-> NoWriter]

\* A thread that has not called anything yet.
\* pc .. outcome: control state and the local variables of the methods;
\* seen is the value line 28 read from self.access_token, clock the value
\* of time.time() it read, expire_at the value of line 40's right-hand
\* side, up_voice_id the voice_id of upload_voice_for_recognition, since
\* the clock when the blocking call the thread is in began.
\* History: cmpBy is the fetch that stored the expiry line 28 compared.
\* History, of the current get_access_token call: gtStart/gtEnd the cache
\* and clock when it began/ended, gtOut what it delivered, gtResp the token
\* endpoint's answer, tokReq the requests sent; prevFetched: the previous
\* top-level call fetched a token and returned it.
\* History, of the current query_recognition_result call: queries and sleeps
\* done, permAt/resultAt the first attempt (from 1) answered by a permanent
\* error/a result, notReady the not-ready answers, sawNoCode an answer with
\* neither result nor errcode, lastKind/lastFault the last answer, pollOut
\* what the call delivered.
\* History, of the current recognize_speech call: upReq the upload requests
\* sent, stages begun, stages done, and the failed stage with its error;
\* upId the voice_id the upload request carried, qIds the voice_ids the
\* queries carried, slept the seconds slept by the poll, upOpened whether
\* the converted file was there when the upload opened it; sentIds the
\* voice_ids of all upload requests of the thread so far.
InitThread ==
    [pc |-> "idle", op |-> "none", calls |-> 0,
     gtRet |-> "top", data |-> NoData,
     audio_file_path |-> None, output_path |-> None, converted_audio |-> None,
     access_token |-> None, voice_id |-> None,
     max_retries |-> 0, delay |-> 0, attempt |-> 0,
     pending |-> NoOutcome, outcome |-> NoOutcome,
     gtStart |-> NoSnapshot, gtEnd |-> NoSnapshot, gtOut |-> NoOutcome,
     gtResp |-> NoData, tokReq |-> 0, prevFetched |-> FALSE,
     upReq |-> 0, queries |-> 0, sleeps |-> 0,
     permAt |-> 0, resultAt |-> 0, resultText |-> "",
     notReady |-> 0, sawNoCode |-> FALSE,
     lastKind |-> "none", lastFault |-> "",
     pollOut |-> NoOutcome, stages |-> <<>>, done |-> <<>>, failed |-> <<>>,
     upId |-> None, qIds |-> {}, slept |-> 0, upOpened |-> "none",
     sentIds |-> <<>>,
     seen |-> None, clock |-> 0, expire_at |-> 0, up_voice_id |-> None,
     since |-> 0, cmpBy |-> NoFetch]

\* get_access_token is entered; the caller resumes at `ret` (history: the
\* cache as found, no request yet)
EnterGetToken(r, ret, snap) ==
    [r EXCEPT !.pc = "gt_check", !.gtRet = ret,
              !.gtStart = snap, !.gtEnd = NoSnapshot, !.gtOut = NoOutcome,
              !.gtResp = NoData, !.tokReq = 0, !.cmpBy = NoFetch]

\* the top-level call ends and hands `out` to the caller
Finish(r, out) == [r EXCEPT !.pc = "idle", !.outcome = out]

--------------------------------------------------------------------------
(* recognize_speech, lines 201-222: where its callees continue *)

\* lines 216-217: any exception of a stage is wrapped; then the finally block
RecognizeFails(r, stage, e) ==
    [r EXCEPT !.pc = "rc_finally",
              !.pending = Raise(Wrap("Speech recognition failed: ", e)),
              !.failed = <<stage>> \o e]

\* line 214: return result; then the finally block
RecognizeReturns(r, result) ==
    [r EXCEPT !.pc = "rc_finally", !.pending = Return(result),
              !.done = Append(@, "poll")]

--------------------------------------------------------------------------
(* query_recognition_result, lines 150-188 *)

\* a loop that runs once too often: range(max_retries + 1)
LoopHasNext_OneMore(attempt, max_retries) == attempt <= max_retries

\* line 160: range(max_retries) still has the value `attempt`
LoopHasNext(attempt, max_retries) == attempt < max_retries

\* the last attempt taken for one past the last: attempt == max_retries
IsFinalAttempt_OffByOne(attempt, max_retries) == attempt = max_retries

\* line 184: attempt == max_retries - 1
IsFinalAttempt(attempt, max_retries) == attempt = max_retries - 1

\* line 172: result.get('errcode') != 0 (an absent errcode is None)
ErrcodeNonZero(result) == ~result.has_errcode \/ result.errcode # 0

\* line 173: result.get('errmsg', 'Unknown error')
QueryErrorMsg(result) ==
    IF result.has_errmsg THEN result.errmsg ELSE MsgUnknownError

\* line 175: "busy" in error_msg.lower() or "wait" in error_msg.lower()
IsTransientMessage(error_msg) ==
    \/ Contains(Lower(error_msg), <<"b","u","s","y">>)
    \/ Contains(Lower(error_msg), <<"w","a","i","t">>)

\* the branches with the error code tested before the result payload
Classify_ErrcodeFirst(result) ==
    IF ErrcodeNonZero(result)
    THEN IF IsTransientMessage(QueryErrorMsg(result))
         THEN "transient" ELSE "permanent"
    ELSE IF result.has_result THEN "result"
    ELSE "notready"

\* lines 169-181: which branch a decoded response takes
Classify(result) ==
    IF result.has_result THEN "result"
    ELSE IF ErrcodeNonZero(result)
         THEN IF IsTransientMessage(QueryErrorMsg(result))
              THEN "transient" ELSE "permanent"
         ELSE "notready"

\* an exception leaves query_recognition_result
QueryRaises(r, e) ==
    LET r2 == [r EXCEPT !.pollOut = Raise(e)]
    IN  IF r.op = "recognize_speech"
        THEN RecognizeFails(r2, "poll", e)
        ELSE Finish(r2, Raise(e))

\* line 171: return result['result']
QueryReturns(r, text) ==
    LET r2 == [r EXCEPT !.pollOut = Return(text)]
    IN  IF r.op = "recognize_speech"
        THEN RecognizeReturns(r2, text)
        ELSE Finish(r2, Return(text))

\* line 160 with `attempt` as the next loop value; line 188 after the loop
LoopAt(r, attempt) ==
    IF LoopHasNext(attempt, r.max_retries)
    THEN [r EXCEPT !.attempt = attempt, !.pc = "q_sleep"]
    ELSE QueryRaises(r, <<"Max retries exceeded without getting result">>)

\* lines 183-186: the except clause of the loop body
QueryHandler(r, e) ==
    IF IsFinalAttempt(r.attempt, r.max_retries)
    THEN QueryRaises(r, <<"Failed to get recognition result after ",
                          ToString(r.max_retries), " attempts: ">> \o e)
    ELSE LoopAt(r, r.attempt + 1)

\* `break` where line 177 has `continue`: a transient error leaves the loop
QueryBody_BreakOnTransient(r, resp) ==
    IF resp.status = "error" THEN QueryHandler(r, <<resp.err>>)
    ELSE CASE Classify(resp) = "result" -> QueryReturns(r, resp.result)
           [] Classify(resp) = "transient" ->
                QueryRaises(r, <<"Max retries exceeded without getting result">>)
           [] Classify(resp) = "permanent" ->
                QueryHandler(r, Wrap("Recognition error: ", QueryErrorMsg(resp)))
           [] Classify(resp) = "notready" -> LoopAt(r, r.attempt + 1)

\* lines 164-186: the loop body after the sleep, given the answer
QueryBody(r, resp) ==
    IF resp.status = "error" THEN QueryHandler(r, <<resp.err>>)
    ELSE CASE Classify(resp) = "result" -> QueryReturns(r, resp.result)
           [] Classify(resp) = "transient" -> LoopAt(r, r.attempt + 1)
           [] Classify(resp) = "permanent" ->
                QueryHandler(r, Wrap("Recognition error: ", QueryErrorMsg(resp)))
           [] Classify(resp) = "notready" -> LoopAt(r, r.attempt + 1)

\* errmsg values that contain "busy" or "wait" in some letter case
TransientMessages == {MsgServerBusy, MsgPleaseWait}

\* What kind of answer `resp` is, in the words of the specification:
\* a transport fault, a result payload, no error code at all, not ready
\* (zero code), a transient error or any other (permanent) error
AnswerKind(resp) ==
    IF resp.status = "error" THEN "fault"
    ELSE IF resp.has_result THEN "result"
    ELSE IF ~resp.has_errcode THEN "nocode"
    ELSE IF resp.errcode = 0 THEN "notready"
    ELSE IF resp.has_errmsg /\ resp.errmsg \in TransientMessages THEN "transient"
    ELSE "permanent"

\* history of one answered query: attempt k = attempt + 1 got `resp`
NoteAnswer(r, resp) ==
    LET k == r.attempt + 1
        c == AnswerKind(resp)
    IN  [r EXCEPT !.queries = @ + 1,
                  !.lastKind = c,
                  !.lastFault = IF c = "fault" THEN resp.err ELSE "",
                  !.permAt = IF c = "permanent" /\ @ = 0 THEN k ELSE @,
                  !.resultAt = IF c = "result" /\ @ = 0 THEN k ELSE @,
                  !.resultText = IF c = "result" THEN resp.result ELSE @,
                  !.notReady = IF c = "notready" THEN @ + 1 ELSE @,
                  !.sawNoCode = @ \/ c = "nocode",
                  !.qIds = @ \cup {r.voice_id}]

\* lines 150-160 after the token is there: params are built, the loop starts
QueryStartsLoop(r, token) == LoopAt([r EXCEPT !.access_token = token], 0)

--------------------------------------------------------------------------
(* upload_voice_for_recognition, lines 104-134 (called by recognize_speech) *)

\* line 126: result.get('errcode') == 0
UploadAccepted(result) == result.has_errcode /\ result.errcode = 0

\* a failed upload sent again instead of raised
UploadRaises_Retries(r, e) == [r EXCEPT !.pc = "up_post"]

\* an exception leaves upload_voice_for_recognition
UploadRaises(r, e) == RecognizeFails(r, "submit", e)

\* line 208 then lines 212, 150: voice_id is bound, the query call begins
UploadReturns(r, voice_id) ==
    EnterGetToken([r EXCEPT !.voice_id = voice_id,
                            !.max_retries = DefaultMaxRetries,
                            !.delay = DefaultDelay,
                            !.done = Append(@, "submit"),
                            !.stages = Append(@, "poll")], "query", Snapshot)

\* lines 123-134: the answer to the upload request
UploadBody(r, resp, voice_id) ==
    IF resp.status = "error"
    THEN UploadRaises(r, <<"Voice upload error: ", resp.err>>)
    ELSE IF UploadAccepted(resp)
         THEN UploadReturns(r, voice_id)
         ELSE UploadRaises(r, <<"Voice upload error: ", "Upload failed: ",
                                IF resp.has_errmsg THEN resp.errmsg
                                ELSE "Unknown error">>)

--------------------------------------------------------------------------
(* convert_audio_to_mp3, lines 63-90 (called by recognize_speech) *)

\* lines 89-90: every exception is wrapped
ConvertRaises(r, e) ==
    RecognizeFails(r, "encode", Wrap("Audio conversion failed: ", e))

\* line 87 then lines 204, 208, 104: converted_audio is bound, upload begins
ConvertReturns(r) ==
    EnterGetToken([r EXCEPT !.converted_audio = r.output_path,
                            !.done = Append(@, "encode"),
                            !.stages = Append(@, "submit")], "upload", Snapshot)

--------------------------------------------------------------------------
(* get_access_token, lines 27-47 *)

\* the comparison turned around: time.time() > expire - 300
CacheUsable_Flipped(token, expire_time, t) ==
    Truthy(token) /\ t > expire_time - RefreshMargin

\* the margin left out: time.time() < expire
CacheUsable_NoMargin(token, expire_time, t) ==
    Truthy(token) /\ t < expire_time

\* the boundary included: time.time() <= expire - 300
CacheUsable_AtBoundary(token, expire_time, t) ==
    Truthy(token) /\ t <= expire_time - RefreshMargin

\* line 28: the cached token is still good
CacheUsable(token, expire_time, t) ==
    Truthy(token) /\ t < expire_time - RefreshMargin

\* line 40: data.get('expires_in', 7200)
ExpiresIn(data) ==
    IF data.expires_in_kind = "absent" THEN DefaultExpiresIn ELSE data.expires_in

\* lines 29, 42: the token goes back to the caller
GetTokenReturns(r, token, snap) ==
    LET r2 == [r EXCEPT !.gtOut = Return(token), !.gtEnd = snap, !.data = NoData]
    IN  CASE r.gtRet = "top" -> Finish(r2, Return(token))
          [] r.gtRet = "upload" -> [r2 EXCEPT !.access_token = token, !.pc = "up_post"]
          [] r.gtRet = "query" -> QueryStartsLoop(r2, token)

\* line 150 moved inside the try of the loop: the poll's handler gets the
\* credential error
GetTokenRaises_InsideTry(r, e, snap) ==
    LET exc == Wrap("Error getting access_token: ", e)
        r2 == [r EXCEPT !.gtOut = Raise(exc), !.gtEnd = snap, !.data = NoData]
    IN  CASE r.gtRet = "top" -> Finish(r2, Raise(exc))
          [] r.gtRet = "upload" -> UploadRaises(r2, exc)
          [] r.gtRet = "query" -> QueryHandler(r2, exc)

\* lines 46-47: every exception is wrapped; lines 104 and 150 are outside
\* their methods' try blocks
GetTokenRaises(r, e, snap) ==
    LET exc == Wrap("Error getting access_token: ", e)
        r2 == [r EXCEPT !.gtOut = Raise(exc), !.gtEnd = snap, !.data = NoData]
    IN  CASE r.gtRet = "top" -> Finish(r2, Raise(exc))
          [] r.gtRet = "upload" -> UploadRaises(r2, exc)
          [] r.gtRet = "query" -> QueryRaises(r2, exc)

--------------------------------------------------------------------------
(* Initial state: a fresh SpeechService (lines 17-20), the clock at 0 *)

Init ==
    /\ access_token = None
    /\ token_expire_time = 0
    /\ now = 0
    /\ fs = ExistingInputs
    /\ uuid_count = 0
    /\ th = [t \in Threads |-> InitThread]
    /\ cache_by = NoWriter

\* thread t becomes r, nothing else changes
Only(t, r) ==
    /\ th' = [th EXCEPT ![t] = r]
    /\ UNCHANGED <<access_token, token_expire_time, now, fs, uuid_count, cache_by>>

\* a fresh frame for the next top-level call of a thread
NewCall(r, op) ==
    [InitThread EXCEPT !.calls = r.calls + 1, !.op = op,
                       !.prevFetched = r.tokReq > 0 /\ r.gtOut.kind = "return",
                       !.sentIds = r.sentIds]

CanStart(t, max) == th[t].pc = "idle" /\ th[t].calls < max

--------------------------------------------------------------------------
(* Top-level calls *)

\* service.get_access_token(), `gap` seconds after the previous call ended
StartGetToken(t, max, gaps) ==
    /\ CanStart(t, max)
    /\ \E gap \in gaps :
        /\ now' = now + gap
        /\ th' = [th EXCEPT ![t] =
                    EnterGetToken(NewCall(th[t], "get_access_token"), "top",
                                  [Snapshot EXCEPT !.now = now + gap])]
    /\ UNCHANGED <<access_token, token_expire_time, fs, uuid_count, cache_by>>

\* service.query_recognition_result("abc-123", max_retries=mr, delay=d)
StartQuery(t, max) ==
    /\ CanStart(t, max)
    /\ \E mr \in 0..MaxRetries, d \in Delays :
          Only(t, EnterGetToken(
                    [NewCall(th[t], "query_recognition_result")
                        EXCEPT !.voice_id = "abc-123",
                               !.max_retries = mr, !.delay = d],
                    "query", Snapshot))

\* service.recognize_speech(path): line 204 calls convert_audio_to_mp3
StartRecognize(t, max) ==
    /\ CanStart(t, max)
    /\ \E path \in InputPaths :
          Only(t, [NewCall(th[t], "recognize_speech")
                      EXCEPT !.audio_file_path = path,
                             !.stages = <<"encode">>,
                             !.pc = "cv_load"])

--------------------------------------------------------------------------
(* get_access_token *)

\* line 28, left operand: self.access_token is read; a false value
\* decides the test without its right operand
GT_Check(t) ==
    /\ th[t].pc = "gt_check"
    /\ IF Truthy(access_token)
       THEN Only(t, [th[t] EXCEPT !.seen = access_token, !.pc = "gt_clock"])
       ELSE Only(t, [th[t] EXCEPT !.pc = "gt_send"])

\* line 28, right operand: time.time() is read
GT_Clock(t) ==
    /\ th[t].pc = "gt_clock"
    /\ Only(t, [th[t] EXCEPT !.clock = now, !.pc = "gt_compare"])

\* line 28, right operand and the branch: self.token_expire_time is read
\* and compared
GT_Compare(t) ==
    /\ th[t].pc = "gt_compare"
    /\ IF CacheUsable(th[t].seen, token_expire_time, th[t].clock)
       THEN Only(t, [th[t] EXCEPT !.seen = None, !.clock = 0,
                                  !.pc = "gt_return",
                                  !.cmpBy = cache_by.expire])
       ELSE Only(t, [th[t] EXCEPT !.seen = None, !.clock = 0,
                                  !.pc = "gt_send"])

\* line 29: self.access_token is read again and returned
GT_Return(t) ==
    /\ th[t].pc = "gt_return"
    /\ Only(t, GetTokenReturns(th[t], access_token, Snapshot))

\* lines 31-33: requests.get sends the request
GT_Send(t) ==
    /\ th[t].pc = "gt_send"
    /\ Only(t, [th[t] EXCEPT !.tokReq = @ + 1, !.since = now,
                             !.pc = "gt_request"])

\* lines 33-38 and 43-45: the answer arrives (`lat` seconds after the
\* request was sent), the token assignment
GT_Request(t, answers, lats) ==
    /\ th[t].pc = "gt_request"
    /\ \E resp \in answers, lat \in lats :
        LET r == [th[t] EXCEPT !.gtResp = resp, !.since = 0]
            arrival == Later(now, th[t].since + lat)
            snap == [Snapshot EXCEPT !.now = arrival]
        IN  /\ now' = arrival
            /\ UNCHANGED <<token_expire_time, fs, uuid_count>>
            /\ IF resp.status = "error"
               THEN /\ th' = [th EXCEPT ![t] = GetTokenRaises(r, <<resp.err>>, snap)]
                    /\ UNCHANGED <<access_token, cache_by>>
               ELSE IF resp.has_access_token
               THEN /\ access_token' = resp.access_token
                    /\ cache_by' = [cache_by EXCEPT !.token = FetchId(t, th[t])]
                    /\ th' = [th EXCEPT ![t] =
                                [r EXCEPT !.data = resp, !.pc = "gt_expire"]]
               ELSE /\ th' = [th EXCEPT ![t] = GetTokenRaises(r,
                                <<"Failed to get access_token: ",
                                  IF resp.has_errmsg THEN resp.errmsg
                                  ELSE "Unknown error">>, snap)]
                    /\ UNCHANGED <<access_token, cache_by>>

\* line 40, right-hand side: time.time() + data.get('expires_in', 7200)
\* (a TypeError when expires_in cannot be added to a float)
GT_Expire(t) ==
    /\ th[t].pc = "gt_expire"
    /\ IF th[t].data.expires_in_kind = "nonnumeric"
       THEN Only(t, GetTokenRaises(th[t], <<"TypeError">>, Snapshot))
       ELSE Only(t, [th[t] EXCEPT !.expire_at = now + ExpiresIn(th[t].data),
                                  !.pc = "gt_store"])

\* line 40, the assignment to self.token_expire_time
GT_Store(t) ==
    /\ th[t].pc = "gt_store"
    /\ token_expire_time' = th[t].expire_at
    /\ cache_by' = [cache_by EXCEPT !.expire = FetchId(t, th[t]),
                                    !.expires_in = ExpiresIn(th[t].data)]
    /\ th' = [th EXCEPT ![t] = [@ EXCEPT !.expire_at = 0, !.pc = "gt_fetched"]]
    /\ UNCHANGED <<access_token, now, fs, uuid_count>>

\* line 42: self.access_token is read and returned
GT_Fetched(t) ==
    /\ th[t].pc = "gt_fetched"
    /\ Only(t, GetTokenReturns(th[t], access_token, Snapshot))

--------------------------------------------------------------------------
(* convert_audio_to_mp3 *)

\* lines 64-76: the input must exist and decode; the output path is chosen
CV_Load(t) ==
    /\ th[t].pc = "cv_load"
    /\ IF th[t].audio_file_path \notin fs
       THEN Only(t, ConvertRaises(th[t],
                    <<"Audio file not found: ", th[t].audio_file_path>>))
       ELSE \E decoded \in BOOLEAN :
              IF decoded
              THEN Only(t, [th[t] EXCEPT
                              !.output_path = ConvertedPath(th[t].audio_file_path),
                              !.pc = "cv_export"])
              ELSE Only(t, ConvertRaises(th[t], <<"CouldntDecodeError">>))

\* line 79: audio.export opens (creates) the output file, then encodes into
\* it; it may fail before the file is created or after
CV_Export(t) ==
    /\ th[t].pc = "cv_export"
    /\ UNCHANGED <<access_token, token_expire_time, now, uuid_count, cache_by>>
    /\ \E res \in {"ok", "fail_before_create", "fail_after_create"} :
        /\ fs' = IF res = "fail_before_create" THEN fs
                 ELSE fs \cup {th[t].output_path}
        /\ th' = [th EXCEPT ![t] =
                    CASE res = "ok" -> [th[t] EXCEPT !.pc = "cv_size"]
                      [] res = "fail_before_create" ->
                            ConvertRaises(th[t], <<"PermissionError">>)
                      [] res = "fail_after_create" ->
                            ConvertRaises(th[t], <<"CouldntEncodeError">>)]

\* lines 83-87: os.path.getsize needs the file; return output_path
CV_Size(t) ==
    /\ th[t].pc = "cv_size"
    /\ IF th[t].output_path \in fs
       THEN Only(t, ConvertReturns(th[t]))
       ELSE Only(t, ConvertRaises(th[t], <<"FileNotFoundError">>))

--------------------------------------------------------------------------
(* upload_voice_for_recognition *)

\* lines 107-121: a fresh voice_id, the file is opened, requests.post
\* sends the request
UP_Send(t) ==
    /\ th[t].pc = "up_post"
    /\ uuid_count' = uuid_count + 1
    /\ UNCHANGED <<access_token, token_expire_time, now, fs, cache_by>>
    /\ LET voice_id == Uuid(uuid_count + 1)
       IN  IF th[t].converted_audio \notin fs
           THEN th' = [th EXCEPT ![t] =
                          UploadRaises([th[t] EXCEPT !.upOpened = "missing",
                                                     !.up_voice_id = voice_id],
                              <<"Voice upload error: ", "FileNotFoundError">>)]
           ELSE th' = [th EXCEPT ![t] =
                          [th[t] EXCEPT !.up_voice_id = voice_id,
                                        !.upReq = @ + 1,
                                        !.upOpened = "found",
                                        !.upId = voice_id,
                                        !.sentIds = Append(@, voice_id),
                                        !.pc = "up_wire"]]

\* lines 121-134: the answer to the upload request arrives
UP_Post(t, answers) ==
    /\ th[t].pc = "up_wire"
    /\ \E resp \in answers :
          Only(t, UploadBody(th[t], resp, th[t].up_voice_id))

--------------------------------------------------------------------------
(* query_recognition_result *)

\* a delay that grows with the attempts
SleepSeconds_Backoff(delay, attempt) == delay * (attempt + 1)

\* line 162: the seconds time.sleep is called with on loop value `attempt`
SleepSeconds(delay, attempt) == delay

\* line 162: time.sleep(delay) is called and blocks the caller
Q_Sleep(t) ==
    /\ th[t].pc = "q_sleep"
    /\ Only(t, [th[t] EXCEPT !.since = now, !.pc = "q_wake"])

\* line 162: time.sleep returns, no earlier than `delay` after the call
Q_Wake(t) ==
    /\ th[t].pc = "q_wake"
    /\ now' = Later(now, th[t].since + SleepSeconds(th[t].delay, th[t].attempt))
    /\ th' = [th EXCEPT ![t] =
                [@ EXCEPT !.sleeps = @ + 1, !.pc = "q_post", !.since = 0,
                          !.slept = @ + SleepSeconds(th[t].delay, th[t].attempt)]]
    /\ UNCHANGED <<access_token, token_expire_time, fs, uuid_count, cache_by>>

\* lines 164-186: the request, its answer, the classification
Q_Post(t, answers) ==
    /\ th[t].pc = "q_post"
    /\ \E resp \in answers :
          Only(t, QueryBody(NoteAnswer(th[t], resp), resp))

--------------------------------------------------------------------------
(* recognize_speech: the finally block *)

\* line 220: 'converted_audio' in locals() and os.path.exists(...); when
\* false the pending return or raise happens
RC_Finally(t) ==
    /\ th[t].pc = "rc_finally"
    /\ IF th[t].converted_audio # None /\ th[t].converted_audio \in fs
       THEN Only(t, [th[t] EXCEPT !.pc = "rc_remove"])
       ELSE Only(t, Finish(th[t], th[t].pending))

\* lines 221-222: os.remove; a file that is gone by now makes it raise
\* FileNotFoundError out of the finally block, in place of the pending
\* return or raise
RC_Remove(t) ==
    /\ th[t].pc = "rc_remove"
    /\ UNCHANGED <<access_token, token_expire_time, now, uuid_count, cache_by>>
    /\ IF th[t].converted_audio \in fs
       THEN /\ fs' = fs \ {th[t].converted_audio}
            /\ th' = [th EXCEPT ![t] = Finish(th[t], th[t].pending)]
       ELSE /\ fs' = fs
            /\ th' = [th EXCEPT ![t] =
                        Finish(th[t], Raise(<<"FileNotFoundError">>))]

--------------------------------------------------------------------------
(* Specifications.  Calls are made one after the other, by one thread. *)

\* get_access_token with every answer of the token endpoint
TokenStep(t) ==
    \/ GT_Check(t)
    \/ GT_Clock(t)
    \/ GT_Compare(t)
    \/ GT_Return(t)
    \/ GT_Send(t)
    \/ GT_Request(t, TokenResponses, Latencies)
    \/ GT_Expire(t)
    \/ GT_Store(t)
    \/ GT_Fetched(t)

\* get_access_token as a callee of the pipeline
CalleeTokenStep(t) ==
    \/ GT_Check(t)
    \/ GT_Clock(t)
    \/ GT_Compare(t)
    \/ GT_Return(t)
    \/ GT_Send(t)
    \/ GT_Request(t, PipelineTokenResponses, {0})
    \/ GT_Expire(t)
    \/ GT_Store(t)
    \/ GT_Fetched(t)

PollStep(t) ==
    \/ Q_Sleep(t)
    \/ Q_Wake(t)
    \/ Q_Post(t, QueryResponses)

PipelineStep(t) ==
    \/ CV_Load(t)
    \/ CV_Export(t)
    \/ CV_Size(t)
    \/ UP_Send(t)
    \/ UP_Post(t, UploadResponses)
    \/ RC_Finally(t)
    \/ RC_Remove(t)

\* a client that calls recognize_speech
Next ==
    \E t \in SeqCallers :
        \/ StartRecognize(t, MaxRecCalls)
        \/ PipelineStep(t)
        \/ CalleeTokenStep(t)
        \/ PollStep(t)

Spec == Init /\ [][Next]_vars

\* a client that calls get_access_token
TokNext ==
    \E t \in SeqCallers :
        \/ StartGetToken(t, MaxTokCalls, Gaps)
        \/ TokenStep(t)

TokSpec == Init /\ [][TokNext]_vars

\* a client that calls query_recognition_result
PollNext ==
    \E t \in SeqCallers :
        \/ StartQuery(t, MaxPollCalls)
        \/ CalleeTokenStep(t)
        \/ PollStep(t)

PollSpec == Init /\ [][PollNext]_vars

\* a client that calls recognize_speech and query_recognition_result
AuthNext ==
    \E t \in SeqCallers :
        \/ StartRecognize(t, MaxAuthCalls)
        \/ StartQuery(t, MaxAuthCalls)
        \/ CV_Load(t)
        \/ CV_Export(t)
        \/ CV_Size(t)
        \/ CalleeTokenStep(t)
        \/ UP_Send(t)
        \/ UP_Post(t, FewUploadResponses)
        \/ Q_Sleep(t)
        \/ Q_Wake(t)
        \/ Q_Post(t, FewQueryResponses)
        \/ RC_Finally(t)
        \/ RC_Remove(t)

AuthSpec == Init /\ [][AuthNext]_vars

\* two threads that call recognize_speech on the same service; any thread
\* takes the next step
ConcRecNext ==
    \E t \in Threads :
        \/ StartRecognize(t, MaxConcRecCalls)
        \/ CV_Load(t)
        \/ CV_Export(t)
        \/ CV_Size(t)
        \/ GT_Check(t)
        \/ GT_Clock(t)
        \/ GT_Compare(t)
        \/ GT_Return(t)
        \/ GT_Send(t)
        \/ GT_Request(t, ConcRecTokenResponses, {0})
        \/ GT_Expire(t)
        \/ GT_Store(t)
        \/ GT_Fetched(t)
        \/ UP_Send(t)
        \/ UP_Post(t, FewUploadResponses)
        \/ Q_Sleep(t)
        \/ Q_Wake(t)
        \/ Q_Post(t, ConcRecQueryResponses)
        \/ RC_Finally(t)
        \/ RC_Remove(t)

ConcRecSpec == Init /\ [][ConcRecNext]_vars

\* two threads that call get_access_token on the same service
ConcTokNext ==
    \E t \in Threads :
        \/ StartGetToken(t, MaxConcTokCalls, {0, 1})
        \/ GT_Check(t)
        \/ GT_Clock(t)
        \/ GT_Compare(t)
        \/ GT_Return(t)
        \/ GT_Send(t)
        \/ GT_Request(t, ConcTokenResponses, {0})
        \/ GT_Expire(t)
        \/ GT_Store(t)
        \/ GT_Fetched(t)

ConcTokSpec == Init /\ [][ConcTokNext]_vars

--------------------------------------------------------------------------
(* The outcomes of the specification, read off what the code delivers *)

\* the current query_recognition_result call of a thread has ended
PollOver(r) == r.pollOut.kind # "none"

\* thread t is inside a direct query_recognition_result call
InPoll(t) == th[t].op = "query_recognition_result" /\ th[t].pc # "idle"

\* Success(text)
IsSuccess(out) == out.kind = "return"

\* PermanentFailure: the raised message carries line 179's
\* "Recognition error: ", bare or wrapped by line 185
IsPermanentFailure(out) ==
    /\ out.kind = "raise"
    /\ \E i \in 1..Len(out.exc) : out.exc[i] = "Recognition error: "

\* Exhausted: line 188's message, or line 185's around anything but a
\* recognition error
IsExhausted(out) ==
    /\ out.kind = "raise"
    /\ ~IsPermanentFailure(out)
    /\ Head(out.exc) \in {"Max retries exceeded without getting result",
                          "Failed to get recognition result after "}

--------------------------------------------------------------------------
(* Claims *)

\* C1: an answer without result whose error code is non-zero and whose
\* message has neither "busy" nor "wait" ends the poll on that attempt with
\* PermanentFailure: no sleep and no query follows it.
C1_PermanentErrorEndsPoll ==
    \A t \in Threads :
        th[t].permAt # 0 =>
            /\ PollOver(th[t])
            /\ IsPermanentFailure(th[t].pollOut)
            /\ th[t].queries = th[t].permAt
            /\ th[t].sleeps = th[t].permAt

\* C2: once recognize_speech has returned or raised, the transcoded file
\* (the converted path of its input) does not exist.
C2_ArtifactGoneAfterRecognize ==
    \A t \in Threads :
        (th[t].op = "recognize_speech" /\ th[t].pc = "idle") =>
            ConvertedPath(th[t].audio_file_path) \notin fs

\* steps a poll can still take, from its position in the code: the token
\* call, then the start of a sleep, its end and a query per remaining value
\* of range(max_retries)
PollRank(r) ==
    CASE r.pc = "gt_check" -> 3 * r.max_retries + 8
      [] r.pc = "gt_clock" -> 3 * r.max_retries + 7
      [] r.pc = "gt_compare" -> 3 * r.max_retries + 6
      [] r.pc = "gt_send" -> 3 * r.max_retries + 5
      [] r.pc = "gt_request" -> 3 * r.max_retries + 4
      [] r.pc = "gt_expire" -> 3 * r.max_retries + 3
      [] r.pc = "gt_store" -> 3 * r.max_retries + 2
      [] r.pc = "gt_fetched" -> 3 * r.max_retries + 1
      [] r.pc = "gt_return" -> 3 * r.max_retries + 1
      [] r.pc = "q_sleep" -> 3 * (r.max_retries - r.attempt)
      [] r.pc = "q_wake" -> 3 * (r.max_retries - r.attempt) - 1
      [] r.pc = "q_post" -> 3 * (r.max_retries - r.attempt) - 2
      [] OTHER -> 0

\* C3: for every max_retries >= 0 and every sequence of answers, a poll
\* sends at most max_retries queries, and it terminates: it is never stuck
\* and each of its steps lowers a rank that is never negative.
C3_PollTerminatesWithinBudget ==
    /\ [](\A t \in Threads :
            /\ th[t].queries <= th[t].max_retries
            /\ PollRank(th[t]) >= 0
            /\ InPoll(t) => ENABLED (CalleeTokenStep(t) \/ PollStep(t)))
    /\ [][\A t \in Threads :
            (InPoll(t) /\ th'[t] # th[t]) => PollRank(th'[t]) < PollRank(th[t])]_vars

\* C3 witness: a poll with a budget of at least two ended having used it all
C3_Witness ==
    \E t \in Threads :
        /\ th[t].op = "query_recognition_result" /\ th[t].pc = "idle"
        /\ th[t].max_retries >= 2
        /\ th[t].queries = th[t].max_retries

\* C4: an answer that carries a result payload, whatever its error code,
\* ends the poll with Success and exactly that text, with no query after
\* it; recognize_speech then returns that text.
C4_ResultEndsPoll ==
    \A t \in Threads :
        th[t].resultAt # 0 =>
            /\ PollOver(th[t])
            /\ th[t].pollOut = Return(th[t].resultText)
            /\ th[t].queries = th[t].resultAt
            /\ th[t].pc \in {"rc_finally", "rc_remove", "idle"}
            /\ th[t].pc = "idle" => th[t].outcome = Return(th[t].resultText)

\* C4 witness: two not-ready answers, then {result: "hello world"}:
\* recognize_speech has returned "hello world" after exactly 3 queries
C4_Witness ==
    \E t \in Threads :
        /\ th[t].op = "recognize_speech" /\ th[t].pc = "idle"
        /\ th[t].notReady = 2 /\ th[t].resultAt = 3 /\ th[t].queries = 3
        /\ th[t].outcome = Return("hello world")

\* C5: when every attempt was a not-ready answer, a transient error or a
\* transport fault, the poll ends Exhausted after max_retries queries, and
\* carries the last attempt's transport error if that attempt was a fault;
\* a fault on an earlier attempt leaves the poll at its next attempt.
C5_ExhaustedAfterAllAttempts ==
    \A t \in Threads :
        /\ (/\ PollOver(th[t])
            /\ th[t].gtOut.kind = "return"
            /\ th[t].resultAt = 0 /\ th[t].permAt = 0 /\ ~th[t].sawNoCode)
           => /\ IsExhausted(th[t].pollOut)
              /\ th[t].queries = th[t].max_retries
              /\ th[t].lastKind = "fault" =>
                    th[t].pollOut.exc[Len(th[t].pollOut.exc)] = th[t].lastFault
        /\ (th[t].lastKind = "fault" /\ th[t].queries < th[t].max_retries)
           => /\ th[t].pc \in {"q_sleep", "q_wake", "q_post"}
              /\ th[t].attempt = th[t].queries

\* C5 witness: a fault, then a fault on the second and last attempt; the
\* poll ended Exhausted with that error in its message
C5_Witness ==
    \E t \in Threads :
        /\ PollOver(th[t]) /\ IsExhausted(th[t].pollOut)
        /\ th[t].max_retries = 2 /\ th[t].queries = 2
        /\ th[t].permAt = 0 /\ th[t].notReady = 0 /\ ~th[t].sawNoCode
        /\ th[t].lastKind = "fault" /\ th[t].lastFault = "JSONDecodeError"
        /\ th[t].pollOut.exc[Len(th[t].pollOut.exc)] = "JSONDecodeError"

\* C6: Exhausted and PermanentFailure exclude each other: a poll ends
\* Exhausted only if no answer was a permanent error, and it ends in
\* PermanentFailure whenever some answer was one.
C6_ExhaustedXorPermanent ==
    \A t \in Threads :
        PollOver(th[t]) =>
            /\ IsExhausted(th[t].pollOut) => th[t].permAt = 0
            /\ th[t].permAt # 0 => IsPermanentFailure(th[t].pollOut)

\* the current get_access_token call of a thread has ended
TokenCallOver(r) == r.gtOut.kind # "none"

\* now < expiresAt - 300 when the call began
BeganInWindow(r) ==
    r.gtStart.now < r.gtStart.token_expire_time - 300

\* C7 as stated: with a credential cached by a successful fetch, a call
\* made at now < expiresAt - 300 returns the cached token without a request.
C7_ReuseWithinWindow ==
    \A t \in Threads :
        (/\ TokenCallOver(th[t])
         /\ th[t].gtStart.access_token # None
         /\ BeganInWindow(th[t]))
        => /\ th[t].tokReq = 0
           /\ th[t].gtOut = Return(th[t].gtStart.access_token)

\* C7 amended: the same for a cached token that is not the empty string;
\* the cache is left as it was.
C7_ReuseNonEmptyToken ==
    \A t \in Threads :
        (/\ TokenCallOver(th[t])
         /\ th[t].gtStart.access_token \notin {None, Str("")}
         /\ BeganInWindow(th[t]))
        => /\ th[t].tokReq = 0
           /\ th[t].gtOut = Return(th[t].gtStart.access_token)
           /\ th[t].gtEnd = th[t].gtStart

\* C7 witness: T1 cached until 7200, a later call at 6899 got it back
\* without a request
C7_Witness ==
    \E t \in Threads :
        /\ th[t].calls >= 2 /\ th[t].pc = "idle"
        /\ th[t].gtStart.access_token = Str("T1")
        /\ th[t].gtStart.token_expire_time = 7200
        /\ th[t].gtStart.now = 6899
        /\ th[t].tokReq = 0 /\ th[t].outcome = Return(Str("T1"))

\* the call began with nothing cached or at now >= expiresAt - 300
BeganStale(r) == r.gtStart.access_token = None \/ ~BeganInWindow(r)

\* expires_in as the answer gave it, 7200 when it gave none
SentExpiresIn(resp) ==
    IF resp.expires_in_kind = "absent" THEN 7200 ELSE resp.expires_in

\* a call that began stale sent exactly one request and, if it returned,
\* cached and returned the answer's token with expiry now + expires_in
RefreshesOnce(r) ==
    (TokenCallOver(r) /\ BeganStale(r))
    => /\ r.tokReq = 1
       /\ r.gtOut.kind = "return" =>
            /\ r.gtOut.val = r.gtResp.access_token
            /\ r.gtEnd.access_token = r.gtResp.access_token
            /\ r.gtEnd.token_expire_time = r.gtEnd.now + SentExpiresIn(r.gtResp)

\* C8 as stated: a stale call refreshes once, and the call that follows a
\* successful refresh within the new window sends no request.
C8_RefreshThenReuse ==
    \A t \in Threads :
        /\ RefreshesOnce(th[t])
        /\ (TokenCallOver(th[t]) /\ th[t].prevFetched /\ BeganInWindow(th[t]))
           => /\ th[t].tokReq = 0
              /\ th[t].gtOut = Return(th[t].gtStart.access_token)

\* C8 amended: the same, the following call sending no request when the
\* refreshed token is not the empty string.
C8_RefreshThenReuseNonEmpty ==
    \A t \in Threads :
        /\ RefreshesOnce(th[t])
        /\ (/\ TokenCallOver(th[t]) /\ th[t].prevFetched /\ BeganInWindow(th[t])
            /\ th[t].gtStart.access_token # Str(""))
           => /\ th[t].tokReq = 0
              /\ th[t].gtOut = Return(th[t].gtStart.access_token)

\* C8 witness: a third call reused what the second call, at or after 6900,
\* had refreshed
C8_Witness ==
    \E t \in Threads :
        /\ th[t].calls = 3 /\ th[t].pc = "idle"
        /\ th[t].prevFetched
        /\ th[t].gtStart.token_expire_time >= 6900 + 302
        /\ BeganInWindow(th[t])
        /\ th[t].tokReq = 0 /\ th[t].outcome = Return(Str("T2"))

\* C9: a get_access_token call that raises leaves the cached token and the
\* cached expiry as they were before the call.
C9_FailureLeavesCache ==
    \A t \in Threads :
        th[t].gtOut.kind = "raise" =>
            /\ th[t].gtEnd.access_token = th[t].gtStart.access_token
            /\ th[t].gtEnd.token_expire_time = th[t].gtStart.token_expire_time

\* s is an initial part of q
IsPrefix(s, q) == Len(s) <= Len(q) /\ SubSeq(q, 1, Len(s)) = s

\* C10: recognize_speech runs encode, submit, poll in this order, each at
\* most once; the upload is requested at most once and only after encode
\* returned; the poll sleeps and queries only after submit returned an id;
\* a stage that fails is the last one begun and recognize_speech raises its
\* error.
C10_StagesInOrder ==
    \A t \in Threads :
        th[t].op = "recognize_speech" =>
            /\ Len(th[t].stages) >= 1
            /\ IsPrefix(th[t].stages, <<"encode", "submit", "poll">>)
            /\ IsPrefix(th[t].done, th[t].stages)
            /\ th[t].upReq <= 1
            /\ th[t].upReq = 1 => Len(th[t].done) >= 1
            /\ (th[t].sleeps > 0 \/ th[t].queries > 0) =>
                    /\ Len(th[t].done) >= 2
                    /\ th[t].upReq = 1
                    /\ th[t].voice_id # None
            /\ th[t].failed # <<>> =>
                    /\ Len(th[t].stages) = Len(th[t].done) + 1
                    /\ Head(th[t].failed) = th[t].stages[Len(th[t].stages)]
                    /\ th[t].pc \in {"rc_finally", "rc_remove", "idle"}
                    /\ th[t].pending =
                         Raise(<<"Speech recognition failed: ">> \o Tail(th[t].failed))
                    /\ th[t].pc = "idle" => th[t].outcome = th[t].pending
                    /\ Head(th[t].failed) = "encode" => th[t].upReq = 0
                    /\ Head(th[t].failed) \in {"encode", "submit"} =>
                            th[t].sleeps = 0 /\ th[t].queries = 0

\* C10 witness: the upload was answered with an error; recognize_speech
\* raised it having sent one upload and no query
C10_Witness ==
    \E t \in Threads :
        /\ th[t].op = "recognize_speech" /\ th[t].pc = "idle"
        /\ th[t].done = <<"encode">> /\ th[t].upReq = 1
        /\ th[t].queries = 0 /\ th[t].sleeps = 0
        /\ th[t].outcome = Raise(<<"Speech recognition failed: ",
                                   "Voice upload error: ", "Upload failed: ",
                                   "invalid credential">>)

\* the last get_access_token call of the thread, made by `caller`, raised
TokenFailedIn(r, caller) == r.gtRet = caller /\ r.gtOut.kind = "raise"

\* C11: when get_access_token raises inside the upload no upload request is
\* sent, when it raises inside the poll the poll raises that error with no
\* sleep and no query, whatever max_retries; the token endpoint got exactly
\* one request from that operation.
C11_TokenFailureIsFatal ==
    \A t \in Threads :
        /\ TokenFailedIn(th[t], "upload") =>
                /\ th[t].tokReq = 1
                /\ th[t].upReq = 0 /\ th[t].sleeps = 0 /\ th[t].queries = 0
                /\ th[t].failed = <<"submit">> \o th[t].gtOut.exc
                /\ th[t].pc \in {"rc_finally", "rc_remove", "idle"}
        /\ TokenFailedIn(th[t], "query") =>
                /\ th[t].tokReq = 1
                /\ th[t].sleeps = 0 /\ th[t].queries = 0
                /\ th[t].pollOut = th[t].gtOut
                /\ th[t].pc \in {"rc_finally", "rc_remove", "idle"}
                /\ th[t].op = "query_recognition_result" =>
                        th[t].outcome = th[t].gtOut

\* C11 witness: a poll with max_retries = 3 whose credential fetch was
\* refused raised at once
C11_Witness ==
    \E t \in Threads :
        /\ th[t].op = "query_recognition_result" /\ th[t].pc = "idle"
        /\ th[t].max_retries = 3
        /\ th[t].sleeps = 0 /\ th[t].queries = 0
        /\ th[t].outcome = Raise(<<"Error getting access_token: ",
                                   "Failed to get access_token: ",
                                   "invalid appid">>)

\* convert_audio_to_mp3 returned the artifact to thread t's recognize_speech
\* and the upload has not opened it yet
ArtifactAwaitsUpload(r) ==
    /\ r.op = "recognize_speech" /\ r.converted_audio # None
    /\ r.upOpened = "none"
    /\ r.pc \in {"gt_check", "gt_clock", "gt_compare", "gt_return", "gt_send",
                "gt_request", "gt_expire", "gt_store", "gt_fetched", "up_post"}

\* C12: under any interleaving of two recognize_speech calls the artifact a
\* call's encode produced is not deleted by the other call: it exists until
\* its own call opens it for upload, and the open finds it.
C12_ArtifactSurvivesOtherCall ==
    \A t \in Threads :
        /\ ArtifactAwaitsUpload(th[t]) => th[t].converted_audio \in fs
        /\ th[t].upOpened # "missing"

\* threads whose token request is sent and not yet answered
InFlight == {t \in Threads : th[t].pc = "gt_request"}

\* C13: with concurrent get_access_token callers at most one request to the
\* token endpoint is in flight at any time (the refresh is done once, not
\* once per caller).
C13_SingleFlight == Cardinality(InFlight) <= 1

\* C18: whenever a get_access_token call returns the cached token without
\* fetching, the expiry it compared with the clock was stored by the same
\* fetch as the token it returned.
C18_ReadConsistent ==
    \A t \in Threads :
        (th[t].gtOut.kind = "return" /\ th[t].tokReq = 0)
        => th[t].gtEnd.stored.token = th[t].cmpBy

\* C14: a not-ready answer (zero error code, no result) or a transient one
\* (non-zero code, "busy" or "wait" in the message, no result) on an attempt
\* before the last does not end the poll: the next attempt is the one the
\* poll is at, its sleep or its query able to happen.
C14_RetryableAnswerContinues ==
    \A t \in Threads :
        (/\ th[t].lastKind \in {"notready", "transient"}
         /\ th[t].queries < th[t].max_retries)
        => /\ ~PollOver(th[t])
           /\ th[t].pc \in {"q_sleep", "q_wake", "q_post"}
           /\ th[t].attempt = th[t].queries
           /\ ENABLED PollStep(t)

\* C14 witness: the first answer was a transient error, the second attempt
\* has slept and is about to query
C14_Witness ==
    \E t \in Threads :
        /\ th[t].lastKind = "transient" /\ th[t].queries = 1
        /\ th[t].sleeps = 2 /\ th[t].pc = "q_post"

\* C15: every query of the poll is sent with a valid credential: when the
\* query is issued the token it carries is the cached one and
\* now < expiresAt - 300.
C15_QueryCarriesValidToken ==
    \A t \in Threads :
        th[t].pc = "q_post" =>
            /\ th[t].access_token = access_token
            /\ now < token_expire_time - 300

\* C16: the voice_id of an upload differs from the id of every earlier
\* upload; the id upload_voice_for_recognition returns is the one its
\* request carried, and every query of the same recognize_speech call
\* carries that id.
C16_VoiceIdFreshAndKept ==
    \A t \in Threads :
        /\ \A i, j \in 1..Len(th[t].sentIds) :
                i # j => th[t].sentIds[i] # th[t].sentIds[j]
        /\ th[t].op = "recognize_speech" =>
                /\ th[t].upId # None =>
                        th[t].upId = th[t].sentIds[Len(th[t].sentIds)]
                /\ Len(th[t].done) >= 2 => th[t].voice_id = th[t].upId
                /\ th[t].qIds \subseteq {th[t].upId}
                /\ th[t].queries > 0 => th[t].qIds = {th[t].upId}

\* C16 witness: the second recognize_speech call of a thread uploaded under
\* a second id and has queried with it
C16_Witness ==
    \E t \in Threads :
        /\ th[t].op = "recognize_speech"
        /\ Len(th[t].sentIds) = 2 /\ th[t].upId = "uuid-2"
        /\ th[t].queries >= 2 /\ th[t].qIds = {"uuid-2"}

\* C17: every query of the poll, the first included, comes right after one
\* sleep of the call's delay: a query about to be sent has exactly one more
\* sleep than queries behind it, elsewhere sleeps and queries are equal in
\* number, and the seconds slept are sleeps * delay (the delay does not grow).
C17_OneFixedSleepPerQuery ==
    \A t \in Threads :
        /\ th[t].slept = th[t].sleeps * th[t].delay
        /\ th[t].pc = "q_post" =>
                /\ th[t].sleeps = th[t].queries + 1
                /\ th[t].sleeps = th[t].attempt + 1
        /\ th[t].pc \in {"q_sleep", "q_wake"} =>
                /\ th[t].sleeps = th[t].queries
                /\ th[t].sleeps = th[t].attempt
        /\ th[t].pc \notin {"q_post", "q_sleep", "q_wake"} =>
                th[t].sleeps = th[t].queries

\* C17 witness: a poll with delay 1 that made three queries slept three
\* times, three seconds in all
C17_Witness ==
    \E t \in Threads :
        /\ th[t].op = "query_recognition_result" /\ th[t].delay = 1
        /\ th[t].queries = 3 /\ th[t].sleeps = 3 /\ th[t].slept = 3

\* the cached expiry the call found was stored by a fetch whose answer gave
\* expires_in <= 300
BeganWithShortLived(r) ==
    r.gtStart.stored.expire # NoFetch /\ r.gtStart.stored.expires_in <= 300

\* C19: a credential cached from an answer with expires_in <= 300 is never
\* valid: every later get_access_token call that finds it sends a request
\* to the token endpoint instead of returning it.
C19_ShortLivedNeverReused ==
    \A t \in Threads :
        BeganWithShortLived(th[t]) =>
            /\ th[t].pc # "gt_return"
            /\ th[t].pc \notin {"gt_check", "gt_clock", "gt_compare"} =>
                    th[t].tokReq = 1 \/ th[t].pc = "gt_send"
            /\ TokenCallOver(th[t]) => th[t].tokReq = 1

\* C19 witness: T1 came with expires_in 300; the next call, made in the
\* same second, sent a request
C19_Witness ==
    \E t \in Threads :
        /\ th[t].pc = "idle" /\ th[t].calls >= 2
        /\ th[t].gtStart.access_token = Str("T1")
        /\ th[t].gtStart.stored.expires_in = 300
        /\ th[t].gtStart.now = th[t].gtStart.token_expire_time - 300
        /\ th[t].tokReq = 1

====
